---- MODULE Spec2Model ----
(***************************************************************************)
(* Model of jupyterdrive/gdrive/gapi_utils.js: the promise wrappers        *)
(* (download, wrap_result, execute, poll) and the startup chain            *)
(*   gapi_ready = load_gapi_1().then(load_gapi_2).then(authorize).         *)
(*                                                                         *)
(* The vendor library (gapi), jQuery, the dialog and base/js/utils are the *)
(* environment: they deliver callbacks with values drawn from small sets.  *)
(* One action is one browser task: the callback that the environment runs, *)
(* together with every promise reaction (microtask) it triggers.           *)
(***************************************************************************)
EXTENDS Naturals, Sequences, FiniteSets

VARIABLES
    req,        \* execute(request): the request, its callbacks, the promise
    upoll,      \* poll(condition, interval): timer, promise, evaluations
    cond,       \* what condition() returns at this moment (poll in isolation)
    fetch,      \* $.getScript of client.js: "pending" | "ok" | "failed"
    gapi,       \* the global: "absent" | "noclient" | "ready" (gapi.client set)
    p1,         \* the promise load_gapi_1() returns
    gpoll,      \* the poll started by load_gapi_1
    p2,         \* the promise load_gapi_2() returns
    load,       \* gapi.load / gapi.client.load: calls made, callbacks run
    calls,      \* the gapi.auth.authorize calls, in order, each with its promise
    dialog,     \* the 'Authentication needed' modal
    ready,      \* gapi_ready
    token,      \* what gapi.auth.getToken() holds
    trace,      \* history of the startup chain's events, in order
    consumers,  \* what each consumer of gapi_ready has observed
    dl          \* the last download(url) call

vars == <<req, upoll, cond, fetch, gapi, p1, gpoll, p2, load, calls, dialog,
          ready, token, trace, consumers, dl>>

(***************************************************************************)
(* Bounds of the model.                                                    *)
(***************************************************************************)
\* how many times in all the environment may run again a callback that it
\* has already run (a callback runs once; a repeat is ignored by the promise)
MaxRepeat == 1
\* number of consumers that attach to gapi_ready
MaxConsumers == 2
\* the largest polling interval, in clock ticks (poll in isolation)
MaxInterval == 3
\* evaluations of condition() that are counted (the count saturates)
MaxEvals == 5

(***************************************************************************)
(* JavaScript values.  Every value is a record of one shape:               *)
(*   kind    "undefined" | "false" | "object" | "Error" | "Event"          *)
(*   name    Error.name                                                    *)
(*   message Error.message                                                 *)
(*   error   the `error` property (gapi_error on an Error)                 *)
(*   data    the payload (access_token on a token object, file contents)   *)
(* Callback results are JSON values or token objects: none is a thenable.  *)
(***************************************************************************)
MUndef == [type |-> "undefined", text |-> ""]
MStr(s) == [type |-> "string", text |-> s]
MNum(s) == [type |-> "number", text |-> s]

\* the `error` property of a result
NoField == [present |-> FALSE, truthy |-> FALSE, message |-> MUndef]
NullField == [present |-> TRUE, truthy |-> FALSE, message |-> MUndef]
ErrRes(m) == [present |-> TRUE, truthy |-> TRUE, message |-> m]
ErrorFields ==
    {NoField, NullField, ErrRes(MStr("Rate Limit Exceeded")),
     ErrRes(MNum("403")), ErrRes(MUndef)}

Val(k, n, m, e, d) ==
    [kind |-> k, name |-> n, message |-> m, error |-> e, data |-> d]
Undefined == Val("undefined", "", MUndef, NoField, "none")
False == Val("false", "", MUndef, NoField, "none")
Obj(e, d) == Val("object", "", MUndef, e, d)
\* new Error(m): the message is converted to a string, undefined to ''
ToString(m) == IF m.type = "undefined" THEN MStr("") ELSE MStr(m.text)
NewError(m) == Val("Error", "Error", ToString(m), NoField, "none")

Data == {"d1", "d2"}
Results == {Undefined, False} \cup {Obj(e, d) : e \in ErrorFields, d \in Data}

Truthy(v) == v.kind \notin {"undefined", "false"}

(***************************************************************************)
(* Promises.                                                               *)
(***************************************************************************)
Pending == [state |-> "pending", value |-> Undefined]
Fulfilled(v) == [state |-> "fulfilled", value |-> v]
Rejected(v) == [state |-> "rejected", value |-> v]

\* resolve(x) / reject(x) of a promise p, x a settled promise or a plain value
\* wrapped by Fulfilled: the first call decides, later calls are ignored
\* (faulty variant: every call decides again)
SettleAgain(p, outcome) == outcome
Settle(p, outcome) == IF p.state = "pending" THEN outcome ELSE p

\* (faulty variant of wrap_result: tests the presence of `error`)
wrap_result_presence(result) ==
    IF ~Truthy(result)
    THEN Rejected([NewError(MStr("Unknown error during Google API call"))
                      EXCEPT !.name = "GapiError"])
    ELSE IF result.error.present
    THEN Rejected([NewError(result.error.message)
                      EXCEPT !.error = result.error])
    ELSE Fulfilled(result)
\* wrap_result(result)
wrap_result(result) ==
    IF ~Truthy(result)
    THEN Rejected([NewError(MStr("Unknown error during Google API call"))
                      EXCEPT !.name = "GapiError"])
    ELSE IF result.error.truthy
    THEN Rejected([NewError(result.error.message)
                      EXCEPT !.error = result.error])
    ELSE Fulfilled(result)

(***************************************************************************)
(* execute(request)                                                        *)
(***************************************************************************)
ReqInit == [called |-> FALSE, cbs |-> <<>>, p |-> Pending]

\* execute(request): request.execute(callback) is called, the promise returned
execute ==
    /\ ~req.called
    /\ req' = [req EXCEPT !.called = TRUE]
    /\ UNCHANGED <<upoll, cond, fetch, gapi, p1, gpoll, p2, load, calls,
                   dialog, ready, token, trace, consumers, dl>>

\* the request runs the callback: resolve(wrap_result(result))
execute_callback ==
    /\ req.called
    /\ Len(req.cbs) < 1 + MaxRepeat
    /\ \E result \in Results :
          req' = [req EXCEPT !.cbs = Append(@, result),
                             !.p = Settle(@, wrap_result(result))]
    /\ UNCHANGED <<upoll, cond, fetch, gapi, p1, gpoll, p2, load, calls,
                   dialog, ready, token, trace, consumers, dl>>

(***************************************************************************)
(* poll(condition, interval)                                               *)
(***************************************************************************)
\* the interval load_gapi_1 polls with, in milliseconds
PollInterval == 100

Min(a, b) == IF a < b THEN a ELSE b

\* a poll whose executor has not run yet
PollInit(interval) ==
    [p |-> Pending, timer |-> "none", remaining |-> 0, interval |-> interval,
     evals |-> 0, sawTrue |-> FALSE, late |-> FALSE]

\* polling_function(), c being what condition() returns in this call.
\* evals counts the evaluations (saturating), sawTrue records that one
\* returned true, late that one ran after the promise was settled.
\* (faulty variant: the timer is set again whatever condition() returned)
polling_function_rearm(c, pl) ==
    [pl EXCEPT !.p = IF c THEN Settle(@, Fulfilled(Undefined)) ELSE @,
               !.timer = "set",
               !.remaining = pl.interval,
               !.evals = Min(@ + 1, MaxEvals),
               !.sawTrue = @ \/ c,
               !.late = @ \/ pl.p.state # "pending"]
\* polling_function()
polling_function(c, pl) ==
    IF c
    THEN [pl EXCEPT !.p = Settle(@, Fulfilled(Undefined)),
                    !.timer = "none",
                    !.evals = Min(@ + 1, MaxEvals),
                    !.sawTrue = TRUE,
                    !.late = @ \/ pl.p.state # "pending"]
    ELSE [pl EXCEPT !.timer = "set",
                    !.remaining = pl.interval,
                    !.evals = Min(@ + 1, MaxEvals),
                    !.late = @ \/ pl.p.state # "pending"]

\* poll(condition, interval): the executor calls polling_function() at once
poll(c, interval) == polling_function(c, PollInit(interval))

\* the clock advances towards the timer's due time
Tick ==
    /\ upoll.timer = "set"
    /\ upoll.remaining > 0
    /\ upoll' = [upoll EXCEPT !.remaining = @ - 1]
    /\ UNCHANGED <<req, cond, fetch, gapi, p1, gpoll, p2, load, calls,
                   dialog, ready, token, trace, consumers, dl>>

\* setTimeout(polling_function, interval) is due: polling_function runs
poll_timer ==
    /\ upoll.timer = "set"
    /\ upoll.remaining = 0
    /\ upoll' = polling_function(cond, [upoll EXCEPT !.timer = "none"])
    /\ UNCHANGED <<req, cond, fetch, gapi, p1, gpoll, p2, load, calls,
                   dialog, ready, token, trace, consumers, dl>>

\* the environment changes what condition() returns
cond_change ==
    /\ cond' = ~cond
    /\ UNCHANGED <<req, upoll, fetch, gapi, p1, gpoll, p2, load, calls,
                   dialog, ready, token, trace, consumers, dl>>

(***************************************************************************)
(* The startup chain                                                       *)
(*   gapi_ready = load_gapi_1().then(load_gapi_2).then(authorize)          *)
(***************************************************************************)
True == Val("true", "", MUndef, NoField, "none")
ReferenceError ==
    Val("Error", "ReferenceError", MStr("gapi is not defined"), NoField, "none")
TypeError ==
    Val("Error", "TypeError", MStr("Cannot read property of null"), NoField,
        "none")
\* the click event that the dialog passes to a button's handler
ClickEvent == Val("Event", "click", MUndef, NoField, "none")
\* utils.wrap_ajax_error(jqXHR) of the host notebook builds an Error around
\* the failed request and returns it
wrap_ajax_error == Val("Error", "XhrError", MStr("error"), NoField, "none")

\* what gapi.client.load passes to its callback: nothing, or an error object
LoadResults == {Undefined, Obj(ErrRes(MStr("Not Found")), "d1")}

Count(e, tr) == Cardinality({i \in 1..Len(tr) : tr[i] = e})
Before(a, i, tr) == \E j \in 1..(i - 1) : tr[j] = a

\* (faulty variant: 'immediate': opt_withPopup)
immediate_popup(opt_withPopup) == Truthy(opt_withPopup)
\* 'immediate': !opt_withPopup
immediate(opt_withPopup) == ~Truthy(opt_withPopup)

\* load_gapi_2(d): the executor calls gapi.load; with no global gapi the
\* executor throws and the promise is rejected, which .then(authorize)
\* passes on to gapi_ready.  tr is the history up to this call.
load_gapi_2(tr) ==
    IF gapi = "absent"
    THEN /\ p2' = Rejected(ReferenceError)
         /\ ready' = Settle(ready, Rejected(ReferenceError))
         /\ load' = load
         /\ trace' = tr
    ELSE /\ p2' = Pending
         /\ ready' = ready
         /\ load' = [load EXCEPT !.loadCalls = @ + 1]
         /\ trace' = Append(tr, "gapi.load")

\* the outcome of load_gapi_1 when $.getScript fails: the rejection handler
\* utils.wrap_ajax_error returns its Error, so the promise is fulfilled
load_gapi_1_failed == Fulfilled(wrap_ajax_error)

\* the environment defines window.gapi, then gapi.client
gapi_appears ==
    /\ gapi # "ready"
    /\ gapi' = IF gapi = "absent" THEN "noclient" ELSE "ready"
    /\ UNCHANGED <<req, upoll, cond, fetch, p1, gpoll, p2, load, calls,
                   dialog, ready, token, trace, consumers, dl>>

\* $.getScript succeeds: the fulfilment handler of load_gapi_1 starts the poll
script_loaded ==
    /\ fetch = "pending"
    /\ fetch' = "ok"
    /\ gpoll' = poll(gapi = "ready", PollInterval)
    /\ IF gpoll'.p.state = "fulfilled"
       THEN /\ p1' = Settle(p1, gpoll'.p)
            /\ load_gapi_2(trace \o <<"fetch_ok", "poll_true">>)
       ELSE /\ trace' = Append(trace, "fetch_ok")
            /\ UNCHANGED <<p1, p2, load, ready>>
    /\ UNCHANGED <<req, upoll, cond, gapi, calls, dialog, token, consumers, dl>>

\* $.getScript fails: the rejection handler of load_gapi_1 runs
script_failed ==
    /\ fetch = "pending"
    /\ fetch' = "failed"
    /\ p1' = Settle(p1, load_gapi_1_failed)
    /\ IF p1'.state = "fulfilled"
       THEN load_gapi_2(Append(trace, "fetch_failed"))
       ELSE /\ ready' = Settle(ready, p1')
            /\ trace' = Append(trace, "fetch_failed")
            /\ UNCHANGED <<p2, load>>
    /\ UNCHANGED <<req, upoll, cond, gapi, gpoll, calls, dialog, token,
                   consumers, dl>>

\* the timer of load_gapi_1's poll is due
gapi_poll_timer ==
    /\ gpoll.timer = "set"
    /\ gpoll' = polling_function(gapi = "ready", [gpoll EXCEPT !.timer = "none"])
    /\ IF gpoll'.p.state = "fulfilled" /\ gpoll.p.state = "pending"
       THEN /\ p1' = Settle(p1, gpoll'.p)
            /\ load_gapi_2(Append(trace, "poll_true"))
       ELSE UNCHANGED <<p1, p2, load, ready, trace>>
    /\ UNCHANGED <<req, upoll, cond, fetch, gapi, calls, dialog, token,
                   consumers, dl>>

\* what gapi.auth.authorize passes to its callback: false, a token object
\* (data is its access_token), an error resource, a token with error: null
AuthResults ==
    {False, Obj(NoField, "d1"), Obj(NoField, "d2"),
     Obj(ErrRes(MStr("immediate_failed")), "d1"), Obj(NullField, "d1")}

DialogInit == [state |-> "none", opt |-> Undefined, shown |-> 0]

\* authorize_internal() inside authorize(opt_withPopup): one more
\* gapi.auth.authorize call, with the promise that its callback resolves
authorize_internal(cs, opt_withPopup) ==
    Append(cs, [immediate |-> immediate(opt_withPopup),
                viaPopup |-> Truthy(opt_withPopup),
                cbs |-> <<>>, p |-> Pending])
AuthEvent(opt_withPopup) ==
    IF immediate(opt_withPopup) THEN "authorize_immediate" ELSE "authorize_popup"

\* (faulty variant: the retry is silent again)
authorize_retry_silent == False
\* the argument of the retry in .catch(function() { return authorize(true); })
authorize_retry == True

\* dialog.modal(options) in authorize(opt_withPopup), opt_withPopup truthy
dialog_modal(opt_withPopup) ==
    [state |-> "open", opt |-> opt_withPopup, shown |-> dialog.shown + 1]

\* authorize(opt_withPopup), called with the history tr and the calls cs
authorize(opt_withPopup, cs, tr) ==
    IF Truthy(opt_withPopup)
    THEN /\ dialog' = dialog_modal(opt_withPopup)
         /\ calls' = cs
         /\ trace' = Append(tr, "dialog")
    ELSE /\ dialog' = dialog
         /\ calls' = authorize_internal(cs, opt_withPopup)
         /\ trace' = Append(tr, AuthEvent(opt_withPopup))

\* the callback of gapi.load: gapi.client.load('drive', 'v2', resolve).
\* It is a completion event and runs once; the features it waited for
\* include the client.
gapi_load_callback ==
    /\ load.loadCalls > load.loadCbs
    /\ load' = [load EXCEPT !.loadCbs = @ + 1, !.clientCalls = @ + 1]
    /\ gapi' = "ready"
    /\ trace' = Append(trace, "gapi.client.load")
    /\ UNCHANGED <<req, upoll, cond, fetch, p1, gpoll, p2, calls, dialog,
                   ready, token, consumers, dl>>

\* gapi.client.load runs resolve(d): load_gapi_2's promise is fulfilled with
\* d and .then(authorize) calls authorize(d)
client_load_callback ==
    /\ load.clientCalls > load.clientCbs
    /\ load' = [load EXCEPT !.clientCbs = @ + 1]
    /\ \E d \in LoadResults :
          /\ p2' = Settle(p2, Fulfilled(d))
          /\ authorize(p2'.value, calls, Append(trace, "client_loaded"))
    /\ UNCHANGED <<req, upoll, cond, fetch, gapi, p1, gpoll, ready, token,
                   consumers, dl>>

\* the 'ok' button: resolve(authorize_internal()); the click closes the modal
dialog_ok ==
    /\ dialog.state = "open"
    /\ dialog' = [dialog EXCEPT !.state = "ok"]
    /\ calls' = authorize_internal(calls, dialog.opt)
    /\ trace' = trace \o <<"click_ok", AuthEvent(dialog.opt)>>
    /\ UNCHANGED <<req, upoll, cond, fetch, gapi, p1, gpoll, p2, load, ready,
                   token, consumers, dl>>

\* the 'cancel' button: reject(event)
dialog_cancel ==
    /\ dialog.state = "open"
    /\ dialog' = [dialog EXCEPT !.state = "cancel"]
    /\ ready' = Settle(ready, Rejected(ClickEvent))
    /\ trace' = Append(trace, "click_cancel")
    /\ UNCHANGED <<req, upoll, cond, fetch, gapi, p1, gpoll, p2, load, calls,
                   token, consumers, dl>>

\* the modal is closed without a button (its close box, the escape key)
dialog_dismiss ==
    /\ dialog.state = "open"
    /\ dialog' = [dialog EXCEPT !.state = "dismissed"]
    /\ UNCHANGED <<req, upoll, cond, fetch, gapi, p1, gpoll, p2, load, calls,
                   ready, token, trace, consumers, dl>>

\* the callbacks run again so far, over all gapi.auth.authorize calls
Repeats(cs) == Cardinality({<<k, i>> \in (1..Len(cs)) \X (2..(1 + MaxRepeat)) :
                               i <= Len(cs[k].cbs)})

SettleEvent(c, p) ==
    IF c.viaPopup
    THEN (IF p.state = "fulfilled" THEN "popup_ok" ELSE "popup_failed")
    ELSE (IF p.state = "fulfilled" THEN "silent_ok" ELSE "silent_failed")

\* gapi.auth.authorize runs the callback of call k:
\* resolve(wrap_result(result)).  A silent call that fails runs
\* .catch(function() { return authorize(true); }); every other outcome is
\* the outcome of authorize(), hence of gapi_ready.
authorize_callback ==
    \E k \in 1..Len(calls), result \in AuthResults :
       LET c == calls[k]
           newp == Settle(c.p, wrap_result(result))
           cs == [calls EXCEPT ![k] = [c EXCEPT !.cbs = Append(@, result),
                                                !.p = newp]]
       IN  /\ c.cbs # <<>> => Repeats(calls) < MaxRepeat
           /\ token' = IF wrap_result(result).state = "fulfilled"
                       THEN result.data ELSE token
           /\ IF newp = c.p
              THEN /\ calls' = cs
                   /\ UNCHANGED <<dialog, ready, trace>>
              ELSE IF ~c.viaPopup /\ newp.state = "rejected"
              THEN /\ authorize(authorize_retry, cs,
                                Append(trace, SettleEvent(c, newp)))
                   /\ ready' = ready
              ELSE /\ calls' = cs
                   /\ ready' = Settle(ready, newp)
                   /\ trace' = Append(trace, SettleEvent(c, newp))
                   /\ dialog' = dialog
           /\ UNCHANGED <<req, upoll, cond, fetch, gapi, p1, gpoll, p2, load,
                          consumers, dl>>

(***************************************************************************)
(* Consumers of gapi_ready                                                 *)
(***************************************************************************)
ConsumerInit == [attached |-> FALSE, seen |-> <<>>]

\* gapi_ready.then(onFulfilled, onRejected)
attach(c) ==
    /\ ~consumers[c].attached
    /\ consumers' = [consumers EXCEPT ![c].attached = TRUE]
    /\ UNCHANGED <<req, upoll, cond, fetch, gapi, p1, gpoll, p2, load, calls,
                   dialog, ready, token, trace, dl>>

\* the reaction of consumer c runs, once, after gapi_ready has settled
react(c) ==
    /\ consumers[c].attached
    /\ consumers[c].seen = <<>>
    /\ ready.state # "pending"
    /\ consumers' = [consumers EXCEPT ![c].seen = <<ready>>]
    /\ UNCHANGED <<req, upoll, cond, fetch, gapi, p1, gpoll, p2, load, calls,
                   dialog, ready, token, trace, dl>>

(***************************************************************************)
(* download(url)                                                           *)
(***************************************************************************)
DlInit == [status |-> "none", header |-> <<"", "none">>, tokenAtCall |-> "none",
           value |-> Undefined]

\* { headers: { 'Authorization': 'Bearer ' + token } }
authorization(access_token) == <<"Authorization: Bearer ", access_token>>

\* download(url): gapi.auth.getToken().access_token throws when the global
\* gapi is not defined (ReferenceError) and when no token is held, getToken()
\* being null (TypeError); otherwise utils.promising_ajax issues the GET
download ==
    /\ dl.status # "pending"
    /\ dl' = IF gapi = "absent"
             THEN [DlInit EXCEPT !.status = "threw", !.value = ReferenceError]
             ELSE IF token = "none"
             THEN [DlInit EXCEPT !.status = "threw", !.value = TypeError]
             ELSE [DlInit EXCEPT !.status = "pending",
                                 !.header = authorization(token),
                                 !.tokenAtCall = token]
    /\ UNCHANGED <<req, upoll, cond, fetch, gapi, p1, gpoll, p2, load, calls,
                   dialog, ready, token, trace, consumers>>

\* utils.promising_ajax settles: the contents, or the wrapped ajax error
ajax_done ==
    /\ dl.status = "pending"
    /\ \/ dl' = [dl EXCEPT !.status = "resolved",
                           !.value = Val("string", "", MUndef, NoField, "contents")]
       \/ dl' = [dl EXCEPT !.status = "rejected", !.value = wrap_ajax_error]
    /\ UNCHANGED <<req, upoll, cond, fetch, gapi, p1, gpoll, p2, load, calls,
                   dialog, ready, token, trace, consumers>>

(***************************************************************************)
(* Specifications                                                          *)
(***************************************************************************)
\* the state once the module body has run: $.getScript is in flight
InitChain ==
    /\ req = ReqInit
    /\ fetch = "pending"
    /\ gapi = "absent"
    /\ p1 = Pending
    /\ gpoll = PollInit(PollInterval)
    /\ p2 = Pending
    /\ load = [loadCalls |-> 0, loadCbs |-> 0, clientCalls |-> 0, clientCbs |-> 0]
    /\ calls = <<>>
    /\ dialog = DialogInit
    /\ ready = Pending
    /\ token = "none"
    /\ trace = <<"getScript">>
    /\ consumers = [c \in 1..MaxConsumers |-> ConsumerInit]
    /\ dl = DlInit

Init ==
    /\ InitChain
    /\ upoll = PollInit(PollInterval)
    /\ cond = FALSE

\* the steps of the startup chain and of its environment
Chain ==
    \/ gapi_appears
    \/ script_loaded
    \/ script_failed
    \/ gapi_poll_timer
    \/ gapi_load_callback
    \/ client_load_callback
    \/ dialog_ok
    \/ dialog_cancel
    \/ dialog_dismiss
    \/ authorize_callback

\* the startup chain and the consumers of gapi_ready
Next ==
    \/ Chain
    \/ \E c \in 1..MaxConsumers : attach(c)
    \/ \E c \in 1..MaxConsumers : react(c)

Spec == Init /\ [][Next]_vars

\* the startup chain and calls of download(url) at any moment of it
NextDownload == Chain \/ download \/ ajax_done

SpecDownload == Init /\ [][NextDownload]_vars

\* execute(request) on its own
NextExec == execute \/ execute_callback

SpecExec == Init /\ [][NextExec]_vars

\* poll(condition, interval) on its own: the call is made in the first state,
\* with any interval and any first value of the condition; timers fire when
\* due and the clock advances
InitPoll ==
    /\ InitChain
    /\ \E c \in BOOLEAN, interval \in 1..MaxInterval :
          /\ cond = c
          /\ upoll = poll(c, interval)

NextPoll == Tick \/ poll_timer \/ cond_change

SpecPoll == InitPoll /\ [][NextPoll]_vars /\ WF_vars(Tick) /\ WF_vars(poll_timer)

(***************************************************************************)
(* Properties                                                              *)
(***************************************************************************)
GapiError ==
    Val("Error", "GapiError", MStr("Unknown error during Google API call"),
        NoField, "none")

\* C1 as stated, for the result r of the first run of the callback: the
\* promise is rejected with the GapiError if r is falsy, rejected if r has an
\* `error` field, with message r.error.message and gapi_error r.error, and
\* fulfilled with r otherwise.
C1_AsClaimed ==
    req.cbs # <<>> =>
       LET r == Head(req.cbs)
       IN  req.p = IF ~Truthy(r) THEN Rejected(GapiError)
                   ELSE IF r.error.present
                   THEN Rejected(Val("Error", "Error", r.error.message,
                                     r.error, "none"))
                   ELSE Fulfilled(r)

\* C1 (amended): the promise of execute is pending until the callback runs
\* and is then decided by the first result r alone: rejected with the
\* GapiError if r is falsy; rejected if r.error is truthy, with the string
\* form of r.error.message ('' for undefined) as message and r.error as
\* gapi_error; fulfilled with r otherwise, also when r.error is present but
\* falsy.
C1_Execute ==
    IF req.cbs = <<>>
    THEN req.p = Pending
    ELSE LET r == Head(req.cbs)
         IN  req.p = IF ~Truthy(r) THEN Rejected(GapiError)
                     ELSE IF r.error.truthy
                     THEN Rejected(Val("Error", "Error",
                                       ToString(r.error.message), r.error,
                                       "none"))
                     ELSE Fulfilled(r)

\* a result with error: null fulfilled the promise, and a later falsy result
\* changed nothing
C1_Witness ==
    /\ Len(req.cbs) = 2
    /\ req.cbs[1].error = NullField
    /\ ~Truthy(req.cbs[2])
    /\ req.p = Fulfilled(req.cbs[1])

FetchDone(i) == Before("fetch_ok", i, trace) \/ Before("fetch_failed", i, trace)

\* C2 as stated: gapi.load and gapi.client.load are called only after the
\* script fetch has completed and the poll has seen gapi.client, and
\* gapi.auth.authorize only after the callback of gapi.client.load has run.
C2_AsClaimed ==
    \A i \in 1..Len(trace) :
       /\ trace[i] \in {"gapi.load", "gapi.client.load"}
             => FetchDone(i) /\ Before("poll_true", i, trace)
       /\ trace[i] \in {"authorize_immediate", "authorize_popup"}
             => Before("client_loaded", i, trace)

\* C3 as stated, for a startup whose script fetch succeeded: the first
\* gapi.auth.authorize call is the silent one (immediate = true), no dialog
\* is shown before it, and the dialog and the immediate = false call come
\* only after the silent attempt has failed.
C3_AsClaimed ==
    fetch = "ok" =>
    \A i \in 1..Len(trace) :
       trace[i] \in {"dialog", "authorize_popup"}
          => /\ Before("authorize_immediate", i, trace)
             /\ Before("silent_failed", i, trace)

Silent == {k \in 1..Len(calls) : calls[k].immediate}
Interactive == {k \in 1..Len(calls) : ~calls[k].immediate}

C5_AsClaimed ==
    dl.status # "none"
       => /\ dl.status \in {"pending", "resolved", "rejected"}
          /\ dl.header = <<"Authorization: Bearer ", dl.tokenAtCall>>

\* C6 as stated: when the script fetch fails, load_gapi_1's promise is
\* rejected with the wrapped ajax error, neither gapi.load nor authorize is
\* invoked, and gapi_ready is rejected with that error.
C6_AsClaimed ==
    fetch = "failed"
       => /\ p1 = Rejected(wrap_ajax_error)
          /\ load.loadCalls = 0
          /\ calls = <<>>
          /\ dialog.shown = 0
          /\ ready = Rejected(wrap_ajax_error)

\* C7: the script fetch, gapi.load and gapi.client.load are each started at
\* most once, gapi_ready never changes once it has settled, and what a
\* consumer has observed is the outcome of gapi_ready, whenever it attached.
C7_ComputedOnce ==
    /\ [](/\ Count("getScript", trace) <= 1
          /\ load.loadCalls <= 1
          /\ load.clientCalls <= 1
          /\ \A c \in 1..MaxConsumers :
                consumers[c].seen # <<>>
                   => /\ ready.state # "pending"
                      /\ consumers[c].seen = <<ready>>)
    /\ [][ready.state # "pending" => ready' = ready]_vars

\* every consumer has observed the fulfilment, although the silent call's
\* callback ran twice, with a token and with a failure
C7_Witness ==
    /\ \A c \in 1..MaxConsumers : consumers[c].seen = <<ready>>
    /\ ready.state = "fulfilled"
    /\ \E k \in 1..Len(calls) :
          /\ Len(calls[k].cbs) = 2
          /\ ~Truthy(calls[k].cbs[2])

\* C8: a gapi.auth.authorize call with immediate = false is made only in the
\* click of 'ok', and after a click of 'cancel' gapi_ready is rejected (with
\* the click event) and no such call exists.
C8_PopupFlow ==
    /\ \A i \in 1..Len(trace) :
          trace[i] = "authorize_popup" => (i > 1 /\ trace[i - 1] = "click_ok")
    /\ Cardinality(Interactive) = Count("authorize_popup", trace)
    /\ Interactive # {} => dialog.state = "ok"
    /\ dialog.state = "cancel"
          => /\ ready = Rejected(ClickEvent)
             /\ Interactive = {}

\* the silent attempt failed and the user cancelled the dialog
C8_Witness ==
    /\ dialog.state = "cancel"
    /\ Len(calls) = 1
    /\ calls[1].p.state = "rejected"

\* C9: the promise of poll is fulfilled only after condition() returned true,
\* is never rejected, has a timer scheduled exactly while it is pending, and
\* condition() is not evaluated after fulfilment; if the condition becomes
\* and stays true the promise is eventually fulfilled, and while it stays
\* false the promise stays pending and the timer fires again and again.
C9_Poll ==
    /\ [](/\ upoll.p.state = "fulfilled" => upoll.sawTrue
          /\ upoll.p.state # "rejected"
          /\ (upoll.timer = "set") = (upoll.p.state = "pending")
          /\ ~upoll.late)
    /\ [][upoll.p.state = "fulfilled" => upoll' = upoll]_vars
    /\ (<>[]cond => <>(upoll.p.state = "fulfilled"))
    /\ ([]~cond => ([](upoll.p.state = "pending") /\ []<><<poll_timer>>_vars))

\* the condition was false in several evaluations before the one that
\* fulfilled the promise
C9_Witness ==
    /\ upoll.p.state = "fulfilled"
    /\ upoll.evals >= 3

\* C10 as stated: gapi_ready is fulfilled only with a result that a
\* gapi.auth.authorize callback delivered, truthy and without an error, and
\* never after a failed script load, before the feature modules are loaded,
\* after a cancelled dialog or when every authorize attempt failed.
C10_AsClaimed ==
    ready.state = "fulfilled"
       => /\ \E k \in 1..Len(calls) : \E i \in 1..Len(calls[k].cbs) :
                /\ calls[k].cbs[i] = ready.value
                /\ Truthy(ready.value)
                /\ ~ready.value.error.truthy
          /\ fetch # "failed"
          /\ Count("client_loaded", trace) > 0
          /\ dialog.state # "cancel"
          /\ \E k \in 1..Len(calls) : calls[k].p.state = "fulfilled"

====
